---------------------------- MODULE Spec2Model ----------------------------
(***************************************************************************)
(* The region layer of mimalloc (src/memory.c): thread-shared regions of   *)
(* MI_REGION_MAP_BITS blocks of MI_SEGMENT_SIZE each, claimed and released *)
(* with atomic operations on a one-word bitmap per region.                 *)
(*                                                                         *)
(* The machine of the model is scaled down: a machine word has             *)
(* MI_INTPTR_SIZE = 1 byte, so a region map has 8 bits, addresses and      *)
(* sizes are 8-bit numbers and SIZE_MAX = UINTPTR_MAX = 255.  Sizes and    *)
(* addresses are counted in units of half an OS page.  Every atomic        *)
(* access to shared memory and every OS call is one step of a thread;      *)
(* assertions (mi_assert_internal) are compiled out, as in a release       *)
(* build.                                                                  *)
(***************************************************************************)
EXTENDS Integers, Sequences, FiniteSets, Bags, TLC

(***************************************************************************)
(* Bounds of the model.                                                    *)
(***************************************************************************)
\* calls of _mi_mem_alloc_aligned in a run that starts from a given region table
MaxAllocsTable == 1
\* the calls of _mi_mem_alloc_aligned of a run of FairSpec
MaxAllocsFair == 2
\* number of threads that call into the layer concurrently
NumThreads == 2
\* calls of _mi_mem_alloc_aligned in a run where the threads call concurrently
MaxAllocs == 3
\* calls of _mi_mem_alloc_aligned in a run where one thread calls
MaxAllocsSeq == 3
\* calls of _mi_mem_alloc_aligned in a run where one thread fills the regions
MaxAllocsFill == 9
\* calls of _mi_mem_alloc_aligned in a run where the caller misuses _mi_mem_free
MaxAllocsMisuse == 2
\* how many of the lowest fitting addresses the OS may choose from
OsChoices == 2

(***************************************************************************)
(* Program constants (scaled).                                             *)
(***************************************************************************)
MI_INTPTR_SIZE == 1
MI_SEGMENT_SIZE == 4
MI_HEAP_REGION_MAX_SIZE == 64
OS_PAGE_SIZE == 2
OS_LARGE_PAGE_SIZE == 4

MI_SEGMENT_ALIGN == MI_SEGMENT_SIZE
MI_REGION_MAP_BITS == MI_INTPTR_SIZE * 8
MI_REGION_SIZE == MI_SEGMENT_SIZE * MI_REGION_MAP_BITS
MI_REGION_MAX_ALLOC_SIZE == (MI_REGION_MAP_BITS \div 4) * MI_SEGMENT_SIZE
MI_REGION_MAX == MI_HEAP_REGION_MAX_SIZE \div MI_REGION_SIZE
WordMod == 2 ^ (MI_INTPTR_SIZE * 8)
SIZE_MAX == WordMod - 1
MI_REGION_MAP_FULL == WordMod - 1
NULL == 0

(***************************************************************************)
(* Word arithmetic on uintptr_t / size_t.                                  *)
(***************************************************************************)
RECURSIVE BitAnd(_, _)
BitAnd(a, b) ==
  IF a = 0 \/ b = 0 THEN 0
  ELSE (a % 2) * (b % 2) + 2 * BitAnd(a \div 2, b \div 2)

BitOr(a, b) == a + b - BitAnd(a, b)

\* a & ~b
BitAndNot(a, b) == a - BitAnd(a, b)

Shl(x, n) == (x * (2 ^ n)) % WordMod

Shr(x, n) == x \div (2 ^ n)

_mi_align_up(sz, alignment) == ((sz + alignment - 1) \div alignment) * alignment

(***************************************************************************)
(* Utility functions.                                                      *)
(***************************************************************************)
mi_region_block_count(size) == (size + MI_SEGMENT_SIZE - 1) \div MI_SEGMENT_SIZE

\* a mask that is not shifted to bitidx: the blocks' bits at position 0
mi_region_block_mask_unshifted(blocks, bitidx) == Shl(1, blocks) - 1

mi_region_block_mask(blocks, bitidx) == Shl(Shl(1, blocks) - 1, bitidx)

mi_good_commit_size(size) ==
  IF size > SIZE_MAX - OS_LARGE_PAGE_SIZE THEN size
  ELSE _mi_align_up(size, OS_LARGE_PAGE_SIZE)

(***************************************************************************)
(* The bitmap search of mi_region_alloc_blocks: one pass of the inner      *)
(* do-while over the word m, continuing from the caller's bitidx.          *)
(***************************************************************************)
\* while ((m&1) == 1) { bitidx++; m>>=1; }
RECURSIVE SkipOnes(_, _)
SkipOnes(m, bitidx) ==
  IF m % 2 = 1 THEN SkipOnes(Shr(m, 1), bitidx + 1)
  ELSE [m |-> m, bitidx |-> bitidx]

\* while (zeros < blocks && (m&1)==0) { zeros++; m>>=1; }
RECURSIVE CountZeros(_, _, _)
CountZeros(m, zeros, blocks) ==
  IF zeros < blocks /\ m % 2 = 0 THEN CountZeros(Shr(m, 1), zeros + 1, blocks)
  ELSE [m |-> m, zeros |-> zeros]

\* the inner do { ... } while (bitidx <= bitidx_max); its result is bitidx
RECURSIVE FindRange(_, _, _)
FindRange(m, bitidx, blocks) ==
  LET s == SkipOnes(m, bitidx)
      z == CountZeros(Shr(s.m, 1), 1, blocks)
  IN  IF z.zeros = blocks THEN s.bitidx
      ELSE IF s.bitidx + z.zeros <= MI_REGION_MAP_BITS - blocks
           THEN FindRange(z.m, s.bitidx + z.zeros, blocks)
           ELSE s.bitidx + z.zeros

\* the bit positions the inner loop examines: the number of its `m >>= 1`
RECURSIVE FindShifts(_, _, _)
FindShifts(m, bitidx, blocks) ==
  LET s == SkipOnes(m, bitidx)
      z == CountZeros(Shr(s.m, 1), 1, blocks)
      n == (s.bitidx - bitidx) + z.zeros
  IN  IF z.zeros = blocks THEN n
      ELSE IF s.bitidx + z.zeros <= MI_REGION_MAP_BITS - blocks
           THEN n + FindShifts(z.m, s.bitidx + z.zeros, blocks)
           ELSE n

(***************************************************************************)
(* State.                                                                  *)
(***************************************************************************)
VARIABLES
  regions,                      \* the region map: [map, start] per index
  regions_count,                \* allocated regions
  region_next_idx,              \* where the next search starts
  eager_region_commit,          \* mi_option_eager_region_commit
  os_mem,                       \* the OS: ranges reserved, [base, size, commit]
  live,                         \* the upper layer: bag of [p, size, id] it holds
  th,                           \* per thread: position and locals of its call
  allocs,                       \* calls of _mi_mem_alloc_aligned made so far
  workload,                     \* who calls in this run, and how
  pre                           \* single-threaded runs: the state at the call

vars == <<regions, regions_count, region_next_idx, eager_region_commit,
          os_mem, live, th, allocs, workload, pre>>

Threads == 1 .. NumThreads

RegionIdx == 0 .. (MI_REGION_MAX - 1)

\* sizes, alignments a caller asks for: one block, two blocks, too large
Sizes == {3, 7, 9}

Alignments == {0, 2 * MI_SEGMENT_ALIGN}

\* locals of a thread that is in no call
Idle ==
  [pc |-> "idle", req |-> 0, size |-> 0, alignment |-> 0, commit |-> FALSE,
   blocks |-> 0, count |-> 0, idx |-> 0, visited |-> 0, sweep |-> 0,
   ridx |-> 0, map |-> 0, bitidx |-> 0, newmap |-> 0, start |-> NULL,
   p |-> NULL, id |-> 0, osret |-> TRUE, os |-> <<>>]

\* the locals a thread still reads at each position of its call
LiveLocals(pc) ==
  LET call == {"pc", "req", "size", "alignment", "commit", "id", "p"}
      loop == call \cup {"blocks", "count", "idx", "visited", "sweep"}
      claimed == {"pc", "req", "size", "commit", "blocks", "ridx", "bitidx", "id", "p"}
      freeing == {"pc", "ridx", "bitidx", "blocks"}
  IN  CASE pc = "idle" -> {"pc"}
        [] pc \in {"a_direct", "a_fallback"} -> call
        [] pc = "a_next" -> call \cup {"blocks", "count"}
        [] pc = "a_probe" -> loop
        [] pc = "a_search" -> loop \cup {"ridx", "bitidx"}
        [] pc = "a_cas" -> loop \cup {"ridx", "bitidx", "map", "newmap"}
        [] pc \in {"c_start", "c_reserve", "c_reread", "c_unclaim_read"} -> claimed
        [] pc = "c_unclaim_cas" -> claimed \cup {"map"}
        [] pc \in {"c_publish", "c_incr", "c_osfree"} -> claimed \cup {"start"}
        [] pc = "c_commit" -> claimed \cup {"start", "os"}
        [] pc = "c_next" -> claimed \cup {"start", "osret"}
        [] pc = "ret" -> {"pc", "req", "p", "id", "blocks", "osret"}
        [] pc = "f_osfree" -> {"pc", "req", "p", "id"}
        [] pc = "f_start" -> freeing \cup {"req", "size", "p", "id"}
        [] pc = "f_decommit" -> freeing \cup {"req", "size", "p", "id", "os"}
        [] pc = "f_read" -> freeing
        [] pc = "f_cas" -> freeing \cup {"map", "newmap"}

\* the locals l with the dead ones set to their value in Idle
Locals(l) ==
  LET keep == LiveLocals(l.pc)
  IN  [f \in DOMAIN Idle |-> IF f \in keep THEN l[f] ELSE Idle[f]]

\* the runs: "threads", all threads call concurrently and free what they hold;
\* "single", one thread calls, and may free at once what a call returned;
\* "fill", as "single", with calls for two blocks only, enough to fill the regions;
\* "misuse", one thread calls, and may also free with a wrong pointer, size or id;
\* "table", one thread calls, in a region table that earlier calls left (SeqSpec);
\* "fair", as "threads", finitely many calls under fair scheduling (FairSpec)
Workloads == {"threads", "single", "fill", "misuse"}

\* the threads that call in the run
Callers == IF workload \in {"threads", "fair"} THEN Threads ELSE {1}

\* the calls of _mi_mem_alloc_aligned the run makes at most
Budget ==
  CASE workload = "threads" -> MaxAllocs
    [] workload = "single" -> MaxAllocsSeq
    [] workload = "fill" -> MaxAllocsFill
    [] workload = "misuse" -> MaxAllocsMisuse
    [] workload = "table" -> MaxAllocsTable
    [] workload = "fair" -> MaxAllocsFair

NoSnapshot == [regs |-> <<>>, count |-> 0, next |-> 0]

\* the shared state, as a single-threaded caller finds it at its call
Snapshot == [regs |-> regions, count |-> regions_count, next |-> region_next_idx]

Init ==
  /\ regions = [r \in RegionIdx |-> [map |-> 0, start |-> NULL]]
  /\ regions_count = 0
  /\ region_next_idx = 0
  /\ eager_region_commit \in BOOLEAN
  /\ os_mem = {}
  /\ live = EmptyBag
  /\ th = [t \in Threads |-> Idle]
  /\ allocs = 0
  /\ workload \in Workloads
  /\ pre = NoSnapshot

(***************************************************************************)
(* The OS (external): aligned reservation and release.                     *)
(***************************************************************************)
OsAddrLow == MI_REGION_SIZE

OsAddrHigh == WordMod

OsAlign(alignment) == IF alignment < OS_PAGE_SIZE THEN OS_PAGE_SIZE ELSE alignment

OsFits(a, size, alignment) ==
  /\ a % OsAlign(alignment) = 0
  /\ a + size <= OsAddrHigh
  /\ \A r \in os_mem : a + size <= r.base \/ r.base + r.size <= a

\* what _mi_os_alloc_aligned may return: NULL, or a free range aligned as asked
\* (the free ranges are enumerated once, as the one value of fit)
OsAllocResults(size, alignment) ==
  {NULL} \cup UNION {{a \in fit : Cardinality({b \in fit : b < a}) < OsChoices} :
                      fit \in {{a \in OsAddrLow .. (OsAddrHigh - 1) :
                                   OsFits(a, size, alignment)}}}

OsReserved(a, size, commit) ==
  IF a = NULL THEN os_mem
  ELSE os_mem \cup {[base |-> a, size |-> size, commit |-> commit]}

\* _mi_os_free(p, size)
OsReleased(p) == {r \in os_mem : r.base # p}

(***************************************************************************)
(* A step of thread t ends with its locals l.                              *)
(***************************************************************************)
Goto(t, l) == \E v \in {l} : th' = [th EXCEPT ![t] = Locals(v)]

(***************************************************************************)
(* _mi_mem_alloc_aligned: the sweeps over the regions.                     *)
(***************************************************************************)
\* a second sweep that starts one region too far
EnterSweep2Beyond(l) ==
  IF l.count + 1 < MI_REGION_MAX
  THEN [l EXCEPT !.sweep = 2, !.idx = l.count + 1, !.visited = 0, !.pc = "a_probe"]
  ELSE [l EXCEPT !.pc = "a_fallback"]

\* second sweep, from the count read at the call: for (idx = count; idx < MI_REGION_MAX; ..)
EnterSweep2(l) ==
  IF l.count < MI_REGION_MAX
  THEN [l EXCEPT !.sweep = 2, !.idx = l.count, !.visited = 0, !.pc = "a_probe"]
  ELSE [l EXCEPT !.pc = "a_fallback"]

\* a probe returned true with p == NULL: the next iteration of its loop
Advance(l) ==
  IF l.sweep = 1
  THEN IF l.visited + 1 < l.count
       THEN [l EXCEPT !.visited = l.visited + 1, !.idx = l.idx + 1, !.pc = "a_probe"]
       ELSE EnterSweep2(l)
  ELSE IF l.idx + 1 < MI_REGION_MAX
       THEN [l EXCEPT !.idx = l.idx + 1, !.pc = "a_probe"]
       ELSE [l EXCEPT !.pc = "a_fallback"]

\* entry of _mi_mem_alloc_aligned up to the read of regions_count
AllocEntry(size, alignment, commit) ==
  LET l == [Idle EXCEPT !.req = size, !.size = size, !.alignment = alignment,
                        !.commit = commit, !.id = SIZE_MAX, !.p = NULL]
  IN  IF size > MI_REGION_MAX_ALLOC_SIZE \/ alignment > MI_SEGMENT_ALIGN
      THEN [l EXCEPT !.pc = "a_direct"]
      ELSE LET sz == _mi_align_up(size, OS_PAGE_SIZE)
           IN  [l EXCEPT !.size = sz, !.blocks = mi_region_block_count(sz),
                         !.count = regions_count, !.pc = "a_next"]

\* a call of _mi_mem_alloc_aligned(size, alignment, commit, &id, tld)
AllocCall(t, size, alignment, commit) ==
  /\ th[t].pc = "idle"
  /\ t \in Callers
  /\ allocs < Budget
  /\ allocs' = allocs + 1
  /\ Goto(t, AllocEntry(size, alignment, commit))
  /\ pre' = IF workload \in {"single", "fill", "table"} THEN Snapshot ELSE pre
  /\ UNCHANGED <<regions, regions_count, region_next_idx, eager_region_commit,
                 os_mem, live, workload>>

\* size_t idx = mi_atomic_read(&region_next_idx); and the first loop's entry
ReadNextIdx(t) ==
  /\ th[t].pc = "a_next"
  /\ LET l == [th[t] EXCEPT !.idx = region_next_idx, !.visited = 0]
     IN  Goto(t, IF l.count > 0 THEN [l EXCEPT !.sweep = 1, !.pc = "a_probe"]
                 ELSE EnterSweep2(l))
  /\ UNCHANGED <<regions, regions_count, region_next_idx, eager_region_commit,
                 os_mem, live, allocs, workload, pre>>

\* mi_region_try_alloc_blocks: the quick check of the map
mi_region_try_alloc_blocks(t) ==
  /\ th[t].pc = "a_probe"
  /\ LET l == th[t]
         ridx == IF l.sweep = 1 THEN l.idx % l.count ELSE l.idx
         m == regions[ridx].map
     IN  Goto(t, IF m # MI_REGION_MAP_FULL
                 THEN [l EXCEPT !.ridx = ridx, !.bitidx = 0, !.pc = "a_search"]
                 ELSE Advance(l))
  /\ UNCHANGED <<regions, regions_count, region_next_idx, eager_region_commit,
                 os_mem, live, allocs, workload, pre>>

\* a plain store in place of a compare-and-swap: it always succeeds
CasAlways(current, expected) == TRUE

\* a compare-and-swap that never succeeds
CasNever(current, expected) == FALSE

\* mi_atomic_compare_exchange(&x, desired, expected) succeeds when x holds expected
mi_atomic_compare_exchange(current, expected) == current = expected

\* where the search for a free range starts in an iteration of the outer loop
\* of mi_region_alloc_blocks: bitidx is set once, before the loop
SearchFrom(bitidx) == bitidx

\* mi_region_alloc_blocks: read the map and find the first free range of bits
FindFreeRange(t) ==
  /\ th[t].pc = "a_search"
  /\ LET l == th[t]
         map == regions[l.ridx].map
         bitidx_max == MI_REGION_MAP_BITS - l.blocks
         bitidx == FindRange(map, SearchFrom(l.bitidx), l.blocks)
         mask == mi_region_block_mask(l.blocks, 0)
     IN  Goto(t, IF bitidx > bitidx_max
                 THEN Advance(l)
                 ELSE [l EXCEPT !.map = map, !.bitidx = bitidx,
                                !.newmap = BitOr(map, Shl(mask, bitidx)),
                                !.pc = "a_cas"])
  /\ UNCHANGED <<regions, regions_count, region_next_idx, eager_region_commit,
                 os_mem, live, allocs, workload, pre>>

\* while(!mi_atomic_compare_exchange(&region->map, newmap, map))
ClaimCas(t) ==
  /\ th[t].pc = "a_cas"
  /\ LET l == th[t]
     IN  IF mi_atomic_compare_exchange(regions[l.ridx].map, l.map)
         THEN /\ regions' = [regions EXCEPT ![l.ridx].map = l.newmap]
              /\ Goto(t, [l EXCEPT !.pc = "c_start"])
         ELSE /\ Goto(t, [l EXCEPT !.pc = "a_search"])
              /\ UNCHANGED regions
  /\ UNCHANGED <<regions_count, region_next_idx, eager_region_commit,
                 os_mem, live, allocs, workload, pre>>

(***************************************************************************)
(* mi_region_commit_blocks.                                                *)
(***************************************************************************)
\* void* blocks_start = (uint8_t*)start + (bitidx * MI_SEGMENT_SIZE)
BlocksStart(start, bitidx) == (start + bitidx * MI_SEGMENT_SIZE) % WordMod

\* a commit at every claim, whatever the option
CommitAlways(commit) == commit

\* if (commit && !mi_option_is_enabled(mi_option_eager_region_commit))
CommitNeeded(commit) == commit /\ ~eager_region_commit

\* after the region is known to be reserved: to the call of _mi_os_commit (the
\* thread's `os` is the OS call it is in: <<call, address, size>>), or past it
AfterReserved(l) ==
  IF CommitNeeded(l.commit)
  THEN [l EXCEPT !.os = <<"commit", BlocksStart(l.start, l.bitidx),
                          mi_good_commit_size(l.size)>>,
                 !.pc = "c_commit"]
  ELSE [l EXCEPT !.pc = "c_next"]

\* void* start = mi_atomic_read_ptr(&region->start);
ReadStart(t) ==
  /\ th[t].pc = "c_start"
  /\ LET l == [th[t] EXCEPT !.start = regions[th[t].ridx].start]
     IN  Goto(t, IF l.start = NULL THEN [l EXCEPT !.pc = "c_reserve"]
                 ELSE AfterReserved(l))
  /\ UNCHANGED <<regions, regions_count, region_next_idx, eager_region_commit,
                 os_mem, live, allocs, workload, pre>>

\* a weaker alignment for a region: that of an OS page
RegionAlignPage == OS_PAGE_SIZE

\* the alignment asked of the OS for a region
RegionAlign == MI_SEGMENT_ALIGN

\* start = _mi_os_alloc_aligned(MI_REGION_SIZE, MI_SEGMENT_ALIGN, eager, tld)
ReserveRegion(t) ==
  /\ th[t].pc = "c_reserve"
  /\ \E a \in OsAllocResults(MI_REGION_SIZE, RegionAlign) :
       /\ os_mem' = OsReserved(a, MI_REGION_SIZE, eager_region_commit)
       /\ Goto(t, [th[t] EXCEPT !.start = a,
                                !.pc = IF a = NULL THEN "c_unclaim_read"
                                       ELSE "c_publish"])
  /\ UNCHANGED <<regions, regions_count, region_next_idx, eager_region_commit,
                 live, allocs, workload, pre>>

\* failure to allocate from the OS: map = mi_atomic_read(&region->map)
UnclaimRead(t) ==
  /\ th[t].pc = "c_unclaim_read"
  /\ Goto(t, [th[t] EXCEPT !.map = regions[th[t].ridx].map, !.pc = "c_unclaim_cas"])
  /\ UNCHANGED <<regions, regions_count, region_next_idx, eager_region_commit,
                 os_mem, live, allocs, workload, pre>>

\* an unclaim that clears the whole word
UnclaimedAll(map, mask) == 0

\* the word an unclaim writes: map & ~mask
UnclaimedMap(map, mask) == BitAndNot(map, mask)

\* while (!mi_atomic_compare_exchange(&region->map, map & ~mask, map)); return false;
\* the callers return NULL at once
UnclaimCas(t) ==
  /\ th[t].pc = "c_unclaim_cas"
  /\ LET l == th[t]
         mask == mi_region_block_mask(l.blocks, l.bitidx)
     IN  IF mi_atomic_compare_exchange(regions[l.ridx].map, l.map)
         THEN /\ regions' = [regions EXCEPT ![l.ridx].map = UnclaimedMap(l.map, mask)]
              /\ Goto(t, [l EXCEPT !.pc = "ret"])
         ELSE /\ Goto(t, [l EXCEPT !.pc = "c_unclaim_read"])
              /\ UNCHANGED regions
  /\ UNCHANGED <<regions_count, region_next_idx, eager_region_commit,
                 os_mem, live, allocs, workload, pre>>

\* a publication of start that is lost
PublishedNever(old, start) == old

\* a plain store to region->start in place of the compare-and-swap against NULL
PublishedAlways(old, start) == start

\* the value of region->start after the compare-and-swap of `start` against NULL
PublishedStart(old, start) == IF old = NULL THEN start ELSE old

\* mi_atomic_compare_exchange_ptr(&region->start, start, NULL)
PublishStart(t) ==
  /\ th[t].pc = "c_publish"
  /\ LET l == th[t]
         old == regions[l.ridx].start
     IN  /\ regions' = [regions EXCEPT ![l.ridx].start = PublishedStart(old, l.start)]
         /\ Goto(t, [l EXCEPT !.pc = IF old = NULL THEN "c_incr" ELSE "c_osfree"])
  /\ UNCHANGED <<regions_count, region_next_idx, eager_region_commit,
                 os_mem, live, allocs, workload, pre>>

\* an increment by two
IncrementTwice(x) == x + 2

\* mi_atomic_increment(&x): the value stored
mi_atomic_increment(x) == x + 1

\* update the region count: mi_atomic_increment(&regions_count)
IncrementCount(t) ==
  /\ th[t].pc = "c_incr"
  /\ regions_count' = mi_atomic_increment(regions_count)
  /\ Goto(t, AfterReserved(th[t]))
  /\ UNCHANGED <<regions, region_next_idx, eager_region_commit, os_mem, live,
                 allocs, workload, pre>>

\* a release of the region's memory in place of the thread's own reservation
ReleasedPublished(own, published) == published

\* the memory released by the thread that lost: its own `start`
ReleasedOnLoss(own, published) == own

\* another thread allocated just before us: _mi_os_free(start, MI_REGION_SIZE, ..)
FreeLostReservation(t) ==
  /\ th[t].pc = "c_osfree"
  /\ os_mem' = OsReleased(ReleasedOnLoss(th[t].start, regions[th[t].ridx].start))
  /\ Goto(t, [th[t] EXCEPT !.pc = "c_reread"])
  /\ UNCHANGED <<regions, regions_count, region_next_idx, eager_region_commit,
                 live, allocs, workload, pre>>

\* start = mi_atomic_read_ptr(&region->start)
RereadStart(t) ==
  /\ th[t].pc = "c_reread"
  /\ Goto(t, AfterReserved([th[t] EXCEPT !.start = regions[th[t].ridx].start]))
  /\ UNCHANGED <<regions, regions_count, region_next_idx, eager_region_commit,
                 os_mem, live, allocs, workload, pre>>

\* a commit whose failure is taken as an allocation failure: the claim is undone
AfterCommitChecked(l, ok) ==
  [l EXCEPT !.osret = ok, !.pc = IF ok THEN "c_next" ELSE "c_unclaim_read"]

\* where a thread goes when _mi_os_commit has returned ok: its result is dropped
AfterCommit(l, ok) == [l EXCEPT !.osret = ok, !.pc = "c_next"]

\* _mi_os_commit(blocks_start, mi_good_commit_size(size), tld->stats); it may fail
CommitBlocks(t) ==
  /\ th[t].pc = "c_commit"
  /\ \E ok \in BOOLEAN : Goto(t, AfterCommit(th[t], ok))
  /\ UNCHANGED <<regions, regions_count, region_next_idx, eager_region_commit,
                 os_mem, live, allocs, workload, pre>>

\* an id for region blocks that is the id of a direct OS allocation
RegionIdMax(idx, bitidx) == SIZE_MAX

\* *id = (idx*MI_REGION_MAP_BITS) + bitidx
RegionId(idx, bitidx) == (idx * MI_REGION_MAP_BITS + bitidx) % WordMod

\* mi_atomic_write(&region_next_idx,idx); *p = blocks_start; *id = ..; return true;
\* the callers return p
ReturnBlocks(t) ==
  /\ th[t].pc = "c_next"
  /\ region_next_idx' = th[t].ridx
  /\ Goto(t, [th[t] EXCEPT !.p = BlocksStart(th[t].start, th[t].bitidx),
                           !.id = RegionId(th[t].ridx, th[t].bitidx),
                           !.pc = "ret"])
  /\ UNCHANGED <<regions, regions_count, eager_region_commit, os_mem, live,
                 allocs, workload, pre>>

(***************************************************************************)
(* _mi_mem_alloc_aligned: the direct OS allocations and the return.        *)
(***************************************************************************)
\* the caller's commit flag passed on to the OS
DirectCommitAsAsked(commit) == commit

\* the commit flag passed to the OS for huge blocks or alignment: true
DirectCommit(commit) == TRUE

\* return _mi_os_alloc_aligned(mi_good_commit_size(size), alignment, true, tld)
AllocDirect(t) ==
  /\ th[t].pc = "a_direct"
  /\ LET l == th[t]
         sz == mi_good_commit_size(l.size)
     IN  \E a \in OsAllocResults(sz, l.alignment) :
           /\ os_mem' = OsReserved(a, sz, DirectCommit(l.commit))
           /\ Goto(t, [l EXCEPT !.p = a, !.pc = "ret"])
  /\ UNCHANGED <<regions, regions_count, region_next_idx, eager_region_commit,
                 live, allocs, workload, pre>>

\* we could not find a place: p = _mi_os_alloc_aligned(size, alignment, commit, tld)
AllocFallback(t) ==
  /\ th[t].pc = "a_fallback"
  /\ LET l == th[t]
     IN  \E a \in OsAllocResults(l.size, l.alignment) :
           /\ os_mem' = OsReserved(a, l.size, l.commit)
           /\ Goto(t, [l EXCEPT !.p = a, !.pc = "ret"])
  /\ UNCHANGED <<regions, regions_count, region_next_idx, eager_region_commit,
                 live, allocs, workload, pre>>

\* what the upper layer keeps of a call that returned
Allocation(l) == [p |-> l.p, size |-> l.req, id |-> l.id]

\* the call has returned p and *id: the upper layer keeps them (a null p is dropped)
AllocReturn(t) ==
  /\ th[t].pc = "ret"
  /\ live' = IF th[t].p = NULL THEN live ELSE live (+) SetToBag({Allocation(th[t])})
  /\ Goto(t, Idle)
  /\ pre' = NoSnapshot
  /\ UNCHANGED <<regions, regions_count, region_next_idx, eager_region_commit,
                 os_mem, allocs, workload>>

(***************************************************************************)
(* _mi_mem_free.                                                           *)
(***************************************************************************)
\* entry of _mi_mem_free up to the read of region->start
FreeEntry(p, size, id) ==
  LET sz == _mi_align_up(size, OS_PAGE_SIZE)
      idx == id \div MI_REGION_MAP_BITS
      l == [Idle EXCEPT !.req = size, !.size = sz, !.p = p, !.id = id, !.ridx = idx,
                        !.bitidx = id % MI_REGION_MAP_BITS,
                        !.blocks = mi_region_block_count(sz)]
  IN  IF p = NULL \/ size = 0 THEN Idle
      ELSE IF id = SIZE_MAX THEN [l EXCEPT !.pc = "f_osfree"]
      ELSE IF size > MI_REGION_MAX_ALLOC_SIZE THEN Idle
      ELSE IF idx >= MI_REGION_MAX THEN Idle
      ELSE [l EXCEPT !.pc = "f_start"]

\* the upper layer frees an allocation it holds, with its own p, size and id
FreeCall(t, a) ==
  /\ th[t].pc = "idle"
  /\ t \in Callers
  /\ BagIn(a, live)
  /\ live' = live (-) SetToBag({a})
  /\ Goto(t, FreeEntry(a.p, a.size, a.id))
  /\ pre' = NoSnapshot
  /\ UNCHANGED <<regions, regions_count, region_next_idx, eager_region_commit,
                 os_mem, allocs, workload>>

\* a single-threaded caller frees at once what its call returned (also a null p)
FreeReturned(t) ==
  /\ th[t].pc = "ret"
  /\ workload \in {"single", "fill", "table"}
  /\ Goto(t, FreeEntry(th[t].p, th[t].req, th[t].id))
  /\ UNCHANGED <<regions, regions_count, region_next_idx, eager_region_commit,
                 os_mem, live, allocs, workload, pre>>

\* the pointer, the size or the id of a, wrong in the way `how`
Misused(a, how) ==
  CASE how = "again" -> a
    [] how = "size" -> [a EXCEPT !.size = IF a.size = 3 THEN 7 ELSE 3]
    [] how = "id" -> [a EXCEPT !.id = (a.id + 1) % WordMod]
    [] how = "region" -> [a EXCEPT !.id = (a.id + MI_REGION_MAP_BITS) % WordMod]
    [] how = "pointer" -> [a EXCEPT !.p = (a.p + MI_SEGMENT_SIZE) % WordMod]

\* a caller that misuses the layer frees with the triple of an allocation it holds,
\* one component wrong, or frees an allocation and keeps it, to free it again
FreeMisuse(t, a, how) ==
  /\ th[t].pc = "idle"
  /\ t \in Callers
  /\ workload = "misuse"
  /\ BagIn(a, live)
  /\ LET b == Misused(a, how) IN Goto(t, FreeEntry(b.p, b.size, b.id))
  /\ UNCHANGED <<regions, regions_count, region_next_idx, eager_region_commit,
                 os_mem, live, allocs, workload, pre>>

\* was a direct OS allocation, pass through: _mi_os_free(p, size, stats)
FreeDirect(t) ==
  /\ th[t].pc = "f_osfree"
  /\ os_mem' = OsReleased(th[t].p)
  /\ Goto(t, Idle)
  /\ UNCHANGED <<regions, regions_count, region_next_idx, eager_region_commit,
                 live, allocs, workload, pre>>

\* the checks of _mi_mem_free on the region's state: true when the free goes on
\* (line 309; the conditions of lines 303 and 305 are assertions only)
FreeValid(l, map, start) ==
  ~ (BlocksStart(start, l.bitidx) # l.p \/ l.bitidx + l.blocks > MI_REGION_MAP_BITS)

\* a free that decommits whatever the option
FreeOsCallDecommit == "decommit"

\* if (mi_option_is_enabled(mi_option_eager_region_commit)) _mi_os_reset else _mi_os_decommit
FreeOsCall == IF eager_region_commit THEN "reset" ELSE "decommit"

\* void* start = mi_atomic_read_ptr(&region->start); if (blocks_start != p || ..) return;
\* and the call of _mi_os_reset(p, size, stats) or _mi_os_decommit(p, size, stats)
FreeReadStart(t) ==
  /\ th[t].pc = "f_start"
  /\ LET l == th[t]
     IN  Goto(t, IF FreeValid(l, regions[l.ridx].map, regions[l.ridx].start)
                 THEN [l EXCEPT !.os = <<FreeOsCall, l.p, l.size>>,
                                !.pc = "f_decommit"]
                 ELSE Idle)
  /\ UNCHANGED <<regions, regions_count, region_next_idx, eager_region_commit,
                 os_mem, live, allocs, workload, pre>>

\* _mi_os_reset or _mi_os_decommit returns
FreeDecommit(t) ==
  /\ th[t].pc = "f_decommit"
  /\ Goto(t, [th[t] EXCEPT !.pc = "f_read"])
  /\ UNCHANGED <<regions, regions_count, region_next_idx, eager_region_commit,
                 os_mem, live, allocs, workload, pre>>

\* map = mi_atomic_read(&region->map); newmap = map & ~mask;
FreeReadMap(t) ==
  /\ th[t].pc = "f_read"
  /\ LET l == th[t]
         map == regions[l.ridx].map
         mask == mi_region_block_mask(l.blocks, l.bitidx)
     IN  Goto(t, [l EXCEPT !.map = map, !.newmap = UnclaimedMap(map, mask),
                           !.pc = "f_cas"])
  /\ UNCHANGED <<regions, regions_count, region_next_idx, eager_region_commit,
                 os_mem, live, allocs, workload, pre>>

\* while (!mi_atomic_compare_exchange(&region->map, newmap, map));
FreeCas(t) ==
  /\ th[t].pc = "f_cas"
  /\ LET l == th[t]
     IN  IF mi_atomic_compare_exchange(regions[l.ridx].map, l.map)
         THEN /\ regions' = [regions EXCEPT ![l.ridx].map = l.newmap]
              /\ Goto(t, Idle)
         ELSE /\ Goto(t, [l EXCEPT !.pc = "f_read"])
              /\ UNCHANGED regions
  /\ UNCHANGED <<regions_count, region_next_idx, eager_region_commit,
                 os_mem, live, allocs, workload, pre>>

(***************************************************************************)
(* The concurrent program: threads that allocate, and free what they hold. *)
(***************************************************************************)
\* the calls of _mi_mem_alloc_aligned a run makes: <<size, alignment, commit>>
Requests ==
  CASE workload = "single" -> Sizes \X Alignments \X BOOLEAN
    [] workload = "fill" -> {<<7, 0, FALSE>>}
    [] workload = "table" -> {<<3, 0, TRUE>>, <<3, 0, FALSE>>, <<7, 0, TRUE>>,
                             <<7, 0, FALSE>>, <<9, 0, FALSE>>}
    [] workload = "fair" -> {<<7, 0, TRUE>>, <<9, 0, FALSE>>}
    [] OTHER -> {<<3, 0, TRUE>>, <<7, 0, FALSE>>, <<9, 0, FALSE>>,
                 <<3, 2 * MI_SEGMENT_ALIGN, FALSE>>}

Next ==
  \E t \in Threads :
    \/ \E r \in Requests : AllocCall(t, r[1], r[2], r[3])
    \/ ReadNextIdx(t)
    \/ mi_region_try_alloc_blocks(t)
    \/ FindFreeRange(t)
    \/ ClaimCas(t)
    \/ ReadStart(t)
    \/ ReserveRegion(t)
    \/ UnclaimRead(t)
    \/ UnclaimCas(t)
    \/ PublishStart(t)
    \/ IncrementCount(t)
    \/ FreeLostReservation(t)
    \/ RereadStart(t)
    \/ CommitBlocks(t)
    \/ ReturnBlocks(t)
    \/ AllocDirect(t)
    \/ AllocFallback(t)
    \/ AllocReturn(t)
    \/ \E a \in BagToSet(live) : FreeCall(t, a)
    \/ FreeReturned(t)
    \/ \E a \in BagToSet(live), how \in {"again", "size", "id", "region", "pointer"} :
         FreeMisuse(t, a, how)
    \/ FreeDirect(t)
    \/ FreeReadStart(t)
    \/ FreeDecommit(t)
    \/ FreeReadMap(t)
    \/ FreeCas(t)

Spec == Init /\ [][Next]_vars

(***************************************************************************)
(* A single caller in a region table that earlier calls left: the first    *)
(* regions are reserved, their maps are any words, and every claimed block *)
(* is held by the upper layer as a one-block allocation (a state the       *)
(* program reaches by one-block calls that fill the regions, followed by   *)
(* the frees of the other blocks).                                         *)
(***************************************************************************)
\* the maps of a reserved region in such a table: any word for region 0
TableMaps(r) == IF r = 0 THEN 0 .. (WordMod - 1) ELSE {0, 1, 126, MI_REGION_MAP_FULL}

\* where the OS reserved region r
TableStart(r) == OsAddrLow + r * MI_REGION_SIZE

\* the table with `count` regions reserved and the maps m
Table(count, m) ==
  [r \in RegionIdx |-> IF r < count THEN [map |-> m[r], start |-> TableStart(r)]
                       ELSE [map |-> 0, start |-> NULL]]

\* the one-block allocations that hold the claimed blocks of the table
TableLive(table) ==
  SetToBag({[p |-> BlocksStart(table[r].start, k), size |-> OS_PAGE_SIZE + 1,
             id |-> RegionId(r, k)] :
            <<r, k>> \in {x \in RegionIdx \X (0 .. (MI_REGION_MAP_BITS - 1)) :
                            Shr(table[x[1]].map, x[2]) % 2 = 1}})

InitSeq ==
  /\ \E count \in 0 .. MI_REGION_MAX :
       /\ regions_count = count
       /\ \E m \in [RegionIdx -> 0 .. (WordMod - 1)] :
            /\ \A r \in RegionIdx : m[r] \in (IF r < count THEN TableMaps(r) ELSE {0})
            /\ regions = Table(count, m)
       /\ region_next_idx \in {i \in RegionIdx : i = 0 \/ i < count}
  /\ eager_region_commit \in BOOLEAN
  /\ os_mem = {[base |-> regions[r].start, size |-> MI_REGION_SIZE,
                commit |-> eager_region_commit] :
               r \in {x \in RegionIdx : regions[x].start # NULL}}
  /\ live = TableLive(regions)
  /\ th = [t \in Threads |-> Idle]
  /\ allocs = 0
  /\ workload = "table"
  /\ pre = NoSnapshot

\* the steps of a single caller: it never loses the race for a region's start
NextSeq ==
  \E t \in Threads :
    \/ \E r \in Requests : AllocCall(t, r[1], r[2], r[3])
    \/ ReadNextIdx(t)
    \/ mi_region_try_alloc_blocks(t)
    \/ FindFreeRange(t)
    \/ ClaimCas(t)
    \/ ReadStart(t)
    \/ ReserveRegion(t)
    \/ UnclaimRead(t)
    \/ UnclaimCas(t)
    \/ PublishStart(t)
    \/ IncrementCount(t)
    \/ CommitBlocks(t)
    \/ ReturnBlocks(t)
    \/ AllocDirect(t)
    \/ AllocFallback(t)
    \/ AllocReturn(t)
    \/ FreeReturned(t)
    \/ FreeDirect(t)
    \/ FreeReadStart(t)
    \/ FreeDecommit(t)
    \/ FreeReadMap(t)
    \/ FreeCas(t)

SeqSpec == InitSeq /\ [][NextSeq]_vars

\* the steps of thread t inside a call: all but the calls and the returns
Continue(t) ==
  \/ ReadNextIdx(t)
  \/ mi_region_try_alloc_blocks(t)
  \/ FindFreeRange(t)
  \/ ClaimCas(t)
  \/ ReadStart(t)
  \/ ReserveRegion(t)
  \/ UnclaimRead(t)
  \/ UnclaimCas(t)
  \/ PublishStart(t)
  \/ IncrementCount(t)
  \/ FreeLostReservation(t)
  \/ RereadStart(t)
  \/ CommitBlocks(t)
  \/ ReturnBlocks(t)
  \/ AllocDirect(t)
  \/ AllocFallback(t)
  \/ FreeDirect(t)
  \/ FreeReadStart(t)
  \/ FreeDecommit(t)
  \/ FreeReadMap(t)
  \/ FreeCas(t)

\* the one-block allocation the two threads hold in the table of InitFair:
\* the other claimed blocks belong to callers that make no call in the run
FairLive(table) ==
  SetToBag({[p |-> BlocksStart(table[x[1]].start, x[2]), size |-> OS_PAGE_SIZE + 1,
             id |-> RegionId(x[1], x[2])] : x \in {<<0, 2>>}})

\* two threads make finitely many calls, in the empty table or in a table
\* whose regions have no two free blocks in a row (the map 11010101)
InitFair ==
  /\ \E count \in {0, MI_REGION_MAX} :
       /\ regions_count = count
       /\ regions = Table(count, [r \in RegionIdx |-> 213])
       /\ live = IF count = 0 THEN EmptyBag ELSE FairLive(regions)
  /\ region_next_idx = 0
  /\ eager_region_commit \in BOOLEAN
  /\ os_mem = {[base |-> regions[r].start, size |-> MI_REGION_SIZE,
                commit |-> eager_region_commit] :
               r \in {x \in RegionIdx : regions[x].start # NULL}}
  /\ th = [t \in Threads |-> Idle]
  /\ allocs = 0
  /\ workload = "fair"
  /\ pre = NoSnapshot

NextFair ==
  \E t \in Threads :
    \/ \E r \in Requests : AllocCall(t, r[1], r[2], r[3])
    \/ AllocReturn(t)
    \/ \E a \in BagToSet(live) : FreeCall(t, a)
    \/ Continue(t)

\* fair scheduling: a thread that is inside a call is not suspended forever
\* (the OS calls return)
FairSpec ==
  InitFair /\ [][NextFair]_vars /\ \A t \in Threads : WF_vars(Continue(t))

(***************************************************************************)
(* Vocabulary of the claims.                                               *)
(***************************************************************************)
BitIdx == 0 .. (MI_REGION_MAP_BITS - 1)

\* bit k of the word map is set
BitSet(map, k) == Shr(map, k) % 2 = 1

\* the blocks of an allocation a = [p, size, id] the upper layer holds
BlocksOf(a) == mi_region_block_count(_mi_align_up(a.size, OS_PAGE_SIZE))

\* a is region-backed and covers block (r, k)
Covers(a, r, k) ==
  /\ a.id # SIZE_MAX
  /\ (a.id \div MI_REGION_MAP_BITS) = r
  /\ (a.id % MI_REGION_MAP_BITS) <= k
  /\ k < (a.id % MI_REGION_MAP_BITS) + BlocksOf(a)

\* the number of live allocations (returned, and not yet passed to free) covering (r, k)
Owners(r, k) ==
  LET S == {a \in BagToSet(live) : Covers(a, r, k)}
      RECURSIVE Sum(_)
      Sum(T) == IF T = {} THEN 0
                ELSE LET a == CHOOSE x \in T : TRUE
                     IN  CopiesIn(a, live) + Sum(T \ {a})
  IN  Sum(S)

\* no call is in progress
Quiescent == \A t \in Threads : th[t].pc = "idle"

\* the step is one of thread t
StepOf(t) == th'[t] # th[t]

(***************************************************************************)
(* C1. Unique ownership: in every reachable state, whatever the            *)
(* interleaving of the threads' allocate and free calls, no block (r, k)   *)
(* is covered by two live region-backed allocations.  (The callers free    *)
(* only what they hold, with its own pointer, size and id.)                *)
(***************************************************************************)
C1_UniqueOwnership ==
  workload # "misuse" => \A r \in RegionIdx, k \in BitIdx : Owners(r, k) <= 1

(***************************************************************************)
(* C2. Bitmap faithfulness: bit k of regions[r].map is set if and only if  *)
(* a live allocation covers block (r, k); stated for the states in which   *)
(* no call is in progress, where every claim has been returned and every   *)
(* free has completed.                                                     *)
(***************************************************************************)
C2_BitmapFaithful ==
  (workload # "misuse" /\ Quiescent) =>
     \A r \in RegionIdx, k \in BitIdx :
        BitSet(regions[r].map, k) <=> Owners(r, k) >= 1

(***************************************************************************)
(* C3. Id round-trip: a single caller, no call of another thread in        *)
(* progress: when allocate, and then free with the returned pointer, the   *)
(* size asked and the returned id, have both returned, every region's map  *)
(* equals its value at the allocate call (pre is the table at that call).  *)
(***************************************************************************)
C3_IdRoundTrip ==
  (workload \in {"single", "fill"} /\ th[1].pc = "idle" /\ pre # NoSnapshot) =>
     \A r \in RegionIdx : regions[r].map = pre.regs[r].map

\* a round trip has returned that took its blocks in a region other than the
\* cursor's (the call moved the cursor), in a table that had blocks claimed
C3_RoundTripDone ==
  /\ workload \in {"single", "fill"}
  /\ th[1].pc = "idle"
  /\ pre # NoSnapshot
  /\ region_next_idx # pre.next
  /\ \E r \in RegionIdx : pre.regs[r].map # 0

(***************************************************************************)
(* C4. Id routing: a call that returns a non-null pointer returns          *)
(* id = SIZE_MAX if and only if it returns from a direct OS allocation     *)
(* (huge size or alignment, or no fit in both sweeps); the id of region    *)
(* blocks is ridx * MI_REGION_MAP_BITS + bitidx and is never SIZE_MAX.  A  *)
(* free goes to the OS free only with id = SIZE_MAX, and that step changes *)
(* no region; a free with another id never changes the OS's memory.        *)
(***************************************************************************)
C4_IdRouting ==
  [][\A t \in Threads : StepOf(t) =>
       /\ (th'[t].pc = "ret" /\ th[t].pc # "ret" /\ th'[t].p # NULL) =>
             /\ (th'[t].id = SIZE_MAX) <=> (th[t].pc \in {"a_direct", "a_fallback"})
             /\ (th[t].pc = "c_next") =>
                   /\ th'[t].id = th[t].ridx * MI_REGION_MAP_BITS + th[t].bitidx
                   /\ th'[t].id # SIZE_MAX
       /\ (th'[t].pc = "f_osfree") => (th'[t].id = SIZE_MAX /\ regions' = regions)
       /\ (th'[t].pc = "f_start") => (th'[t].id # SIZE_MAX /\ os_mem' = os_mem)
       /\ (th[t].pc = "f_osfree") =>
             (regions' = regions /\ os_mem' = OsReleased(th[t].p) /\ th'[t].pc = "idle")
       /\ (th[t].pc \in {"f_start", "f_decommit", "f_read", "f_cas"}) =>
             /\ os_mem' = os_mem
             /\ th'[t].pc \in {"f_decommit", "f_read", "f_cas", "idle"}
    ]_vars

\* a call for a size the regions serve returns from the OS fallback with
\* id = SIZE_MAX, while the upper layer holds region blocks
C4_FallbackReturned ==
  \E t \in Threads :
    /\ th[t].pc = "ret"
    /\ th[t].p # NULL
    /\ th[t].id = SIZE_MAX
    /\ th[t].req <= MI_REGION_MAX_ALLOC_SIZE
    /\ \E a \in BagToSet(live) : a.id # SIZE_MAX

(***************************************************************************)
(* C5. OOM rollback: a thread whose reservation of the region's memory     *)
(* failed after it claimed bits [bitidx, bitidx + blocks) only unclaims    *)
(* and returns: it asks the OS for nothing more and probes no other        *)
(* region; its successful unclaim clears exactly its bits and leaves every *)
(* other bit of every map; it returns p = NULL with id = SIZE_MAX; none of *)
(* its steps changes a region's start, regions_count or the cursor.        *)
(***************************************************************************)
C5_OomRollback ==
  [][\A t \in Threads : StepOf(t) =>
       /\ (th[t].pc = "c_reserve" /\ th'[t].start = NULL) =>
             /\ th'[t].pc = "c_unclaim_read"
             /\ os_mem' = os_mem
             /\ regions' = regions
       /\ (th[t].pc = "c_unclaim_read") =>
             (th'[t].pc = "c_unclaim_cas" /\ regions' = regions)
       /\ (th[t].pc = "c_unclaim_cas") =>
             /\ th'[t].pc \in {"c_unclaim_read", "ret"}
             /\ (th'[t].pc = "c_unclaim_read") => regions' = regions
             /\ (th'[t].pc = "ret") =>
                   /\ th'[t].p = NULL
                   /\ th'[t].id = SIZE_MAX
                   /\ \A r \in RegionIdx, k \in BitIdx :
                         BitSet(regions'[r].map, k) <=>
                            /\ BitSet(regions[r].map, k)
                            /\ ~ /\ r = th[t].ridx
                                 /\ th[t].bitidx <= k
                                 /\ k < th[t].bitidx + th[t].blocks
       /\ (th[t].pc \in {"c_unclaim_read", "c_unclaim_cas"}) =>
             /\ \A r \in RegionIdx : regions'[r].start = regions[r].start
             /\ regions_count' = regions_count
             /\ region_next_idx' = region_next_idx
             /\ os_mem' = os_mem
    ]_vars

\* a rolled-back call returns NULL, and the bit another thread claimed in a
\* region that is not reserved yet is still set
C5_RolledBack ==
  \E t \in Threads :
    /\ th[t].pc = "ret"
    /\ th[t].blocks > 0
    /\ th[t].p = NULL
    /\ th[t].id = SIZE_MAX
    /\ \E r \in RegionIdx : regions[r].start = NULL /\ regions[r].map # 0

(***************************************************************************)
(* C6. Free validation: a free with a region id that finds the state of    *)
(* the region inconsistent with its (pointer, id, size) - not all bits of  *)
(* its mask set in the map, start NULL, or the pointer not at              *)
(* start + bitidx * MI_SEGMENT_SIZE - returns at once: it issues no        *)
(* decommit or reset and clears no bit.                                    *)
(***************************************************************************)
C6_FreeValidation ==
  [][\A t \in Threads :
       LET l == th[t]
           mask == Shl(Shl(1, l.blocks) - 1, l.bitidx)
           map == regions[l.ridx].map
           start == regions[l.ridx].start
       IN  (/\ StepOf(t)
            /\ l.pc = "f_start"
            /\ \/ BitAnd(map, mask) # mask
               \/ start = NULL
               \/ l.p # start + l.bitidx * MI_SEGMENT_SIZE)
           => (th'[t].pc = "idle" /\ regions' = regions)
    ]_vars

(***************************************************************************)
(* C7. Backing monotonic: a region's start, once non-null, never changes   *)
(* (and so never returns to NULL), under any interleaving.                 *)
(***************************************************************************)
C7_StartWrittenOnce ==
  [][\A r \in RegionIdx :
       regions[r].start # NULL => regions'[r].start = regions[r].start]_vars

\* two threads reserved memory for the same region: one published its start,
\* the other lost the compare-and-swap and is about to release its memory
C7_LostTheRace ==
  \E t \in Threads :
    /\ th[t].pc = "c_osfree"
    /\ regions[th[t].ridx].start # NULL
    /\ regions[th[t].ridx].start # th[t].start

(***************************************************************************)
(* C8 (as amended). Region start alignment: every non-null                 *)
(* regions[r].start lies on a MI_SEGMENT_ALIGN (block size) boundary, the  *)
(* alignment the layer passes to the OS, for every address the OS may      *)
(* return for that size and alignment.                                     *)
(***************************************************************************)
C8_StartSegmentAligned ==
  \A r \in RegionIdx :
    regions[r].start # NULL => regions[r].start % MI_SEGMENT_ALIGN = 0

\* a region is reserved at an address off every MI_REGION_SIZE boundary
C8_StartOffRegionBoundary ==
  \E r \in RegionIdx :
    regions[r].start # NULL /\ regions[r].start % MI_REGION_SIZE # 0

(***************************************************************************)
(* C8 (as stated). Every non-null regions[r].start lies on a               *)
(* MI_REGION_SIZE boundary.                                                *)
(***************************************************************************)
C8_StartRegionAligned ==
  \A r \in RegionIdx :
    regions[r].start # NULL => regions[r].start % MI_REGION_SIZE = 0

(***************************************************************************)
(* C9. Commit failure is not propagated: whatever the OS commit of the     *)
(* claimed blocks returns, the thread goes on to return the non-null       *)
(* pointer start + bitidx * MI_SEGMENT_SIZE and the region's id, sets the  *)
(* cursor to the region's index, and leaves every map as it is (it does    *)
(* not unclaim).                                                           *)
(***************************************************************************)
C9_CommitFailureNotPropagated ==
  [][\A t \in Threads : StepOf(t) =>
       /\ (th[t].pc = "c_commit") =>
             /\ th'[t].pc = "c_next"
             /\ regions' = regions
             /\ region_next_idx' = region_next_idx
       /\ (th[t].pc = "c_next") =>
             /\ th'[t].pc = "ret"
             /\ th'[t].p = th[t].start + th[t].bitidx * MI_SEGMENT_SIZE
             /\ th'[t].p # NULL
             /\ th'[t].id = th[t].ridx * MI_REGION_MAP_BITS + th[t].bitidx
             /\ region_next_idx' = th[t].ridx
             /\ regions' = regions
    ]_vars

\* a call whose commit failed returns its blocks
C9_ReturnedUncommitted ==
  \E t \in Threads :
    /\ th[t].pc = "ret"
    /\ ~ th[t].osret
    /\ th[t].p # NULL
    /\ th[t].id # SIZE_MAX
    /\ BitSet(regions[th[t].id \div MI_REGION_MAP_BITS].map,
              th[t].id % MI_REGION_MAP_BITS)

(***************************************************************************)
(* C10. OS bypass frame: a call with size > MI_REGION_MAX_ALLOC_SIZE or    *)
(* alignment > MI_SEGMENT_ALIGN, and only such a call, goes to the direct  *)
(* OS allocation; it returns what the OS returns with id = SIZE_MAX; the   *)
(* OS is asked for committed memory whatever the caller's commit flag;     *)
(* the regions, regions_count and the cursor are left unchanged.           *)
(***************************************************************************)
C10_OsBypassFrame ==
  [][\A t \in Threads : StepOf(t) =>
       /\ (th[t].pc = "idle" /\ th'[t].pc \in {"a_direct", "a_next"}) =>
             /\ (th'[t].pc = "a_direct") <=>
                   \/ th'[t].req > MI_REGION_MAX_ALLOC_SIZE
                   \/ th'[t].alignment > MI_SEGMENT_ALIGN
             /\ regions' = regions
             /\ regions_count' = regions_count
             /\ region_next_idx' = region_next_idx
             /\ os_mem' = os_mem
       /\ (th[t].pc = "a_direct") =>
             /\ th'[t].pc = "ret"
             /\ th'[t].id = SIZE_MAX
             /\ regions' = regions
             /\ regions_count' = regions_count
             /\ region_next_idx' = region_next_idx
             /\ \/ th'[t].p = NULL /\ os_mem' = os_mem
                \/ /\ th'[t].p # NULL
                   /\ os_mem' = os_mem \cup
                        {[base |-> th'[t].p,
                          size |-> _mi_align_up(th[t].req, OS_LARGE_PAGE_SIZE),
                          commit |-> TRUE]}
    ]_vars

\* a huge call made with commit = false returns committed OS memory, while
\* blocks are claimed in a region
C10_DirectReturned ==
  \E t \in Threads :
    /\ th[t].pc = "ret"
    /\ th[t].req > MI_REGION_MAX_ALLOC_SIZE
    /\ th[t].id = SIZE_MAX
    /\ \E m \in os_mem : m.base = th[t].p /\ m.commit
    /\ \E r \in RegionIdx : regions[r].map # 0

(***************************************************************************)
(* C11. Quiescent emptiness: the callers free every allocation they were   *)
(* returned exactly once, with its own pointer, size and id; when all      *)
(* calls have returned and nothing is held any more, the map of every      *)
(* region is 0.                                                            *)
(***************************************************************************)
C11_QuiescentEmpty ==
  (workload # "misuse" /\ Quiescent /\ live = EmptyBag) =>
     \A r \in RegionIdx : regions[r].map = 0

\* the threads made all their calls concurrently, in both regions, and
\* everything returned has been freed
C11_AllFreed ==
  /\ workload = "threads"
  /\ Quiescent
  /\ live = EmptyBag
  /\ allocs = MaxAllocs
  /\ \A r \in RegionIdx : regions[r].start # NULL

(***************************************************************************)
(* C12. Eager-commit policy.  With eager_region_commit off: a region is    *)
(* reserved uncommitted; a region allocation calls the OS commit if and    *)
(* only if the caller's commit flag is true, on a range that starts at its *)
(* first block and lies within its blocks; free calls decommit, never      *)
(* reset, on [p, p + size rounded up to OS pages).  With it on: a region   *)
(* is reserved committed; a region allocation never calls the OS commit;   *)
(* free calls reset, never decommit.                                       *)
(***************************************************************************)
C12_EagerCommitPolicy ==
  [][\A t \in Threads : StepOf(t) =>
       /\ (th[t].pc = "c_reserve" /\ th'[t].start # NULL) =>
             os_mem' = os_mem \cup {[base |-> th'[t].start, size |-> MI_REGION_SIZE,
                                     commit |-> eager_region_commit]}
       /\ (th[t].pc \in {"c_start", "c_incr", "c_reread"}
             /\ th'[t].pc \in {"c_commit", "c_next"}) =>
             /\ (th'[t].pc = "c_commit") <=> (th[t].commit /\ ~ eager_region_commit)
             /\ (th'[t].pc = "c_commit") =>
                   /\ th'[t].os[1] = "commit"
                   /\ th'[t].os[2] =
                        regions[th[t].ridx].start + th[t].bitidx * MI_SEGMENT_SIZE
                   /\ th'[t].os[3] = _mi_align_up(th[t].size, OS_LARGE_PAGE_SIZE)
                   /\ th'[t].os[3] <= th[t].blocks * MI_SEGMENT_SIZE
       /\ (th'[t].pc = "c_commit") => th[t].pc \in {"c_start", "c_incr", "c_reread"}
       /\ (th[t].pc = "f_start" /\ th'[t].pc # "idle") =>
             /\ th'[t].pc = "f_decommit"
             /\ th'[t].os[1] = IF eager_region_commit THEN "reset" ELSE "decommit"
             /\ th'[t].os[2] = th[t].p
             /\ th'[t].os[3] = _mi_align_up(th[t].req, OS_PAGE_SIZE)
       /\ (th'[t].pc = "f_decommit") => th[t].pc = "f_start"
    ]_vars

\* with the option off, a call made with commit = true is in the OS commit
\* of its block, in a region another call left uncommitted blocks in
C12_Committing ==
  \E t \in Threads :
    /\ ~ eager_region_commit
    /\ th[t].pc = "c_commit"
    /\ th[t].bitidx > 0
    /\ \E m \in os_mem : m.base = th[t].start /\ ~ m.commit

\* the word map has a free run of `blocks` bits
HasFit(map, blocks) ==
  \E i \in 0 .. (MI_REGION_MAP_BITS - blocks) :
    BitAnd(map, Shl(Shl(1, blocks) - 1, i)) = 0

(***************************************************************************)
(* C13. Region extension: a single caller, a request of size at most       *)
(* MI_REGION_MAX_ALLOC_SIZE, no region below regions_count with a free run *)
(* of its blocks, regions_count below MI_REGION_MAX: if the call returns a *)
(* pointer, it is the start of the region at index regions_count (bit 0,   *)
(* id = regions_count * MI_REGION_MAP_BITS), that region was not reserved  *)
(* before and is now, with exactly the request's blocks claimed, and       *)
(* regions_count has grown by exactly 1; the other regions are unchanged.  *)
(***************************************************************************)
C13_RegionExtension ==
  \A t \in Threads :
    LET l == th[t]
        B == mi_region_block_count(_mi_align_up(l.req, OS_PAGE_SIZE))
    IN  (/\ workload = "table"
         /\ l.pc = "ret"
         /\ pre # NoSnapshot
         /\ l.req <= MI_REGION_MAX_ALLOC_SIZE
         /\ l.p # NULL
         /\ pre.count < MI_REGION_MAX
         /\ \A r \in RegionIdx : r < pre.count => ~ HasFit(pre.regs[r].map, B))
        => /\ l.id = pre.count * MI_REGION_MAP_BITS
           /\ pre.regs[pre.count].start = NULL
           /\ regions[pre.count].start # NULL
           /\ l.p = regions[pre.count].start
           /\ \E m \in os_mem : m.base = l.p /\ m.size = MI_REGION_SIZE
           /\ regions[pre.count].map = Shl(1, B) - 1
           /\ regions_count = pre.count + 1
           /\ region_next_idx = pre.count
           /\ \A r \in RegionIdx : r # pre.count => regions[r] = pre.regs[r]

\* region 0 has free blocks but no free run of two: a two-block call returns
\* region 1, bit 0, and regions_count is 2
C13_Extended ==
  \E t \in Threads :
    /\ workload = "table"
    /\ th[t].pc = "ret"
    /\ pre # NoSnapshot
    /\ pre.count = 1
    /\ pre.regs[0].map = 126
    /\ th[t].req = 7
    /\ th[t].id = MI_REGION_MAP_BITS
    /\ regions_count = 2

\* i is the lowest index of a free run of `blocks` bits in map
LowestFit(map, blocks, i) ==
  /\ i + blocks <= MI_REGION_MAP_BITS
  /\ BitAnd(map, Shl(Shl(1, blocks) - 1, i)) = 0
  /\ \A j \in 0 .. (MI_REGION_MAP_BITS - blocks) :
        BitAnd(map, Shl(Shl(1, blocks) - 1, j)) = 0 => i <= j

(***************************************************************************)
(* C14. First fit from the least significant bit: every attempt of a       *)
(* region claim, the first and every restart after a failed                *)
(* compare-and-swap, reads the map, and either finds the lowest index i    *)
(* with i + B <= W and map & mask(B, i) = 0, or reports no fit exactly     *)
(* when there is no such i; the successful compare-and-swap is made        *)
(* against that map value and sets bits [i, i + B).                        *)
(***************************************************************************)
C14_FirstFit ==
  [][\A t \in Threads : StepOf(t) =>
       /\ (th[t].pc = "a_search") =>
             /\ (th'[t].pc = "a_cas") <=> HasFit(regions[th[t].ridx].map, th[t].blocks)
             /\ (th'[t].pc = "a_cas") =>
                   /\ th'[t].map = regions[th[t].ridx].map
                   /\ LowestFit(th'[t].map, th[t].blocks, th'[t].bitidx)
       /\ (th[t].pc = "a_cas" /\ th'[t].pc = "c_start") =>
             /\ regions[th[t].ridx].map = th[t].map
             /\ LowestFit(th[t].map, th[t].blocks, th[t].bitidx)
             /\ regions'[th[t].ridx].map =
                  th[t].map + Shl(Shl(1, th[t].blocks) - 1, th[t].bitidx)
    ]_vars

\* thread u is in an allocation that has claimed block (r, k) and not yet returned
Claiming(u, r, k) ==
  /\ th[u].pc \in {"c_start", "c_reserve", "c_publish", "c_incr", "c_osfree",
                   "c_reread", "c_commit", "c_next"}
  /\ th[u].ridx = r
  /\ th[u].bitidx <= k
  /\ k < th[u].bitidx + th[u].blocks

(***************************************************************************)
(* C15. Decommit before unclaim: while a free (of an allocation its caller *)
(* held, with its own pointer, size and id) is in its OS decommit or       *)
(* reset, it has cleared no bit yet: all bits of its range are still set   *)
(* in the map, and no other allocation, returned or in progress, has       *)
(* claimed a block of the range.                                           *)
(***************************************************************************)
C15_DecommitBeforeUnclaim ==
  \A t \in Threads :
    (workload # "misuse" /\ th[t].pc = "f_decommit") =>
       \A k \in BitIdx :
         (th[t].bitidx <= k /\ k < th[t].bitidx + th[t].blocks) =>
            /\ BitSet(regions[th[t].ridx].map, k)
            /\ Owners(th[t].ridx, k) = 0
            /\ \A u \in Threads \ {t} :
                  /\ ~ Claiming(u, th[t].ridx, k)
                  /\ ~ (th[u].pc = "ret" /\ th[u].p # NULL
                        /\ Covers(Allocation(th[u]), th[t].ridx, k))

\* the regions whose start is non-null
Initialized == {r \in RegionIdx : regions[r].start # NULL}

\* the OS reservations of the size of a region
RegionReservations == {m \in os_mem : m.size = MI_REGION_SIZE}

(***************************************************************************)
(* C16. Reservation race: of the reservations that threads make for a      *)
(* region whose start they found null, one is published in start; the      *)
(* published one is never released; every other one is held by its thread  *)
(* until that thread releases it, so none is leaked; the thread that loses *)
(* releases a reservation that is not the published one; regions_count is  *)
(* incremented once per initialized region (it counts the initialized      *)
(* regions but those whose publisher is about to increment); every thread  *)
(* that goes on, and every call that returns region blocks, uses the       *)
(* published start.  (The callers pass to free only what they hold.)       *)
(***************************************************************************)
C16_ReservationRace ==
  workload # "misuse" =>
    /\ \A r \in Initialized : \E m \in RegionReservations : m.base = regions[r].start
    /\ \A m \in RegionReservations :
          \/ \E r \in Initialized : regions[r].start = m.base
          \/ \E t \in Threads : th[t].pc \in {"c_publish", "c_osfree"} /\ th[t].start = m.base
    /\ \A t \in Threads :
          /\ (th[t].pc = "c_osfree") =>
                /\ regions[th[t].ridx].start # NULL
                /\ regions[th[t].ridx].start # th[t].start
                /\ \E m \in RegionReservations : m.base = th[t].start
          /\ (th[t].pc \in {"c_incr", "c_commit", "c_next"}) =>
                /\ th[t].start # NULL
                /\ th[t].start = regions[th[t].ridx].start
          /\ (th[t].pc = "ret" /\ th[t].p # NULL /\ th[t].id # SIZE_MAX) =>
                th[t].p = regions[th[t].id \div MI_REGION_MAP_BITS].start
                            + (th[t].id % MI_REGION_MAP_BITS) * MI_SEGMENT_SIZE
    /\ regions_count + Cardinality({t \in Threads : th[t].pc = "c_incr"})
         = Cardinality(Initialized)

\* a thread lost the race and has released its reservation: the only
\* reservation left is the published one, counted once
C16_LoserReleased ==
  \E t \in Threads :
    /\ th[t].pc = "c_reread"
    /\ regions[th[t].ridx].start # NULL
    /\ Cardinality(RegionReservations) = 1
    /\ regions_count = 1

(***************************************************************************)
(* C17 (as amended). Start published before blocks are returned: in every  *)
(* reachable state, the region of every block that a call returns or that  *)
(* the upper layer holds has a non-null start.  (Bits are claimed before   *)
(* the region is reserved: a set bit may be observed while start is null.) *)
(***************************************************************************)
C17_StartBeforeReturn ==
  /\ \A a \in BagToSet(live) :
        a.id # SIZE_MAX => regions[a.id \div MI_REGION_MAP_BITS].start # NULL
  /\ \A t \in Threads :
        (th[t].pc = "ret" /\ th[t].p # NULL /\ th[t].id # SIZE_MAX) =>
           regions[th[t].id \div MI_REGION_MAP_BITS].start # NULL

\* a call returns blocks of a region in which another thread has claimed its
\* bits while start was still null
C17_ReturnedWhileClaimed ==
  \E t \in Threads, u \in Threads :
    /\ th[t].pc = "ret"
    /\ th[t].p # NULL
    /\ th[t].id # SIZE_MAX
    /\ th[u].pc = "c_osfree"
    /\ th[u].ridx = th[t].id \div MI_REGION_MAP_BITS

(***************************************************************************)
(* C17 (as stated). Start published before bits are visible: in every      *)
(* reachable state, if a bit of regions[r].map is set then                 *)
(* regions[r].start is non-null.                                           *)
(***************************************************************************)
C17_StartBeforeBits ==
  \A r \in RegionIdx : regions[r].map # 0 => regions[r].start # NULL

(***************************************************************************)
(* C18 (as amended). Counter bound: in every reachable state regions_count *)
(* is at most the number of initialized regions (those with a non-null     *)
(* start), which is at most MI_REGION_MAX; the two are equal when no call  *)
(* is in progress.                                                         *)
(***************************************************************************)
C18_CounterLowerBound ==
  /\ regions_count <= Cardinality(Initialized)
  /\ Cardinality(Initialized) <= MI_REGION_MAX
  /\ Quiescent => regions_count = Cardinality(Initialized)

\* a region is initialized at an index that regions_count does not cover yet
C18_InitializedBeyondCount ==
  \E r \in Initialized : r >= regions_count

(***************************************************************************)
(* C18 (as stated). Counter bound: in every reachable state regions_count  *)
(* is an upper bound on the number of initialized regions.                 *)
(***************************************************************************)
C18_CounterUpperBound ==
  regions_count >= Cardinality(Initialized)

\* the regions a call has probed when it is at a probe of its sweeps
Probes(l) == IF l.sweep = 1 THEN l.visited + 1 ELSE l.count + (l.idx - l.count) + 1

\* thread t is inside a call
InCall(t) == th[t].pc \notin {"idle", "ret"}

C20_NoLostUpdate ==
  [][\A t \in Threads : StepOf(t) =>
       /\ (th[t].pc \in {"f_cas", "c_unclaim_cas"}) =>
             LET done == th'[t].pc \in {"idle", "ret"}
             IN  /\ done <=> (regions[th[t].ridx].map = th[t].map)
                 /\ \A r \in RegionIdx, k \in BitIdx :
                       BitSet(regions'[r].map, k) <=>
                          /\ BitSet(regions[r].map, k)
                          /\ ~ /\ done
                               /\ r = th[t].ridx
                               /\ th[t].bitidx <= k
                               /\ k < th[t].bitidx + th[t].blocks
       /\ (th[t].pc \in {"f_read", "c_unclaim_read"}) => regions' = regions
       /\ (th[t].pc = "a_cas") =>
             \A r \in RegionIdx, k \in BitIdx :
                ~ (r = th[t].ridx /\ th[t].bitidx <= k
                                  /\ k < th[t].bitidx + th[t].blocks)
                   => (BitSet(regions'[r].map, k) <=> BitSet(regions[r].map, k))
       /\ (th[t].pc \in {"f_read", "f_cas", "c_unclaim_read", "c_unclaim_cas"}) =>
             /\ \A r \in RegionIdx : regions'[r].start = regions[r].start
             /\ regions_count' = regions_count
             /\ region_next_idx' = region_next_idx
    ]_vars

\* a free is at its compare-and-swap with a map that another thread has
\* changed since the free read it
C20_StaleRead ==
  \E t \in Threads :
    /\ th[t].pc = "f_cas"
    /\ th[t].map # regions[th[t].ridx].map

=============================================================================
